---- MODULE Spec2Model ----
(***************************************************************************)
(* Model of spatialbench-cli/src/s3_writer.rs: the S3Writer that buffers   *)
(* written bytes into parts and uploads them in finish().                  *)
(*                                                                         *)
(* Byte data is kept run-length encoded: a byte string is a sequence of    *)
(* runs [byte |-> b, n |-> k] standing for k copies of byte b.  This keeps *)
(* the real sizes (5 MiB, 32 MiB) of the program within reach of the model *)
(* checker.  len() is the sum of the run lengths, extend_from_slice is     *)
(* concatenation, and two encodings denote the same byte string exactly    *)
(* when their canonical forms (Canon) are equal.                           *)
(***************************************************************************)
EXTENDS Integers, Sequences, FiniteSets, TLC

\* ------------------------------------------------------------------ sizes
S3_MIN_PART_SIZE == 5 * 1024 * 1024

PARQUET_BUFFER_SIZE == 32 * 1024 * 1024

\* ----------------------------------------------------------------- bounds
MaxWrites == 3

MaxByte == 1

\* ------------------------------------------------------------- byte data
\* buf.len(): number of bytes of a run-length encoded byte string.
RECURSIVE len(_)
len(bs) == IF bs = <<>> THEN 0 ELSE Head(bs).n + len(Tail(bs))

\* The byte string an encoding denotes, in canonical form: no empty run,
\* no two adjacent runs of the same byte.
RECURSIVE Canon(_)
Canon(bs) ==
    IF bs = <<>> THEN <<>>
    ELSE LET h == Head(bs)
             t == Canon(Tail(bs))
         IN  IF h.n = 0 THEN t
             ELSE IF t # <<>> /\ Head(t).byte = h.byte
                  THEN <<[byte |-> h.byte, n |-> h.n + Head(t).n]>> \o Tail(t)
                  ELSE <<h>> \o t

\* Concatenation of a sequence of byte strings, in sequence order.
RECURSIVE Concat(_)
Concat(ss) == IF ss = <<>> THEN <<>> ELSE Head(ss) \o Concat(Tail(ss))

\* Sum of the lengths of a sequence of byte strings.
RECURSIVE SumLen(_)
SumLen(ss) == IF ss = <<>> THEN 0 ELSE len(Head(ss)) + SumLen(Tail(ss))

\* Lengths of the slices handed to write: empty, small, the provider
\* minimum, around the split threshold and a multiple of the threshold.
SliceLens ==
    {0, 100, S3_MIN_PART_SIZE,
     PARQUET_BUFFER_SIZE - 1, PARQUET_BUFFER_SIZE, 2 * PARQUET_BUFFER_SIZE}

\* The slices handed to write: the empty slice and one-run slices.
Slices ==
    {<<>>} \cup
    {<<[byte |-> b, n |-> k]>> : b \in 0..MaxByte, k \in SliceLens \ {0}}

\* ----------------------------------------------------------------- state
VARIABLES
    uri,          \* the argument of S3Writer::new, as Url::parse sees it
    created,      \* what S3Writer::new returned
    buffer,       \* self.buffer
    parts,        \* self.parts
    total_bytes,  \* self.total_bytes
    pc,           \* no writer, accumulating, or the await finish() is at
    next_part,    \* position of the parts iterator in finish()
    calls,        \* remote store calls issued so far, with their outcome
    result,       \* what finish() returned
    written,      \* history: the slices passed to write, in call order
    ret,          \* what the last write, flush or total_bytes call returned
    finishes      \* history: number of times finish() was entered

vars == <<uri, created, buffer, parts, total_bytes, pc, next_part, calls,
          result, written, ret, finishes>>

NoResult == [kind |-> "none", value |-> 0, part |-> 0]

Ok(v) == [kind |-> "Ok", value |-> v, part |-> 0]

Err(phase, i) == [kind |-> phase, value |-> 0, part |-> i]

Call(op, data) == [op |-> op, data |-> data, status |-> "pending"]

\* The call log with the outcome of the last (pending) call filled in.
Returned(cs, ok) ==
    [cs EXCEPT ![Len(cs)].status = IF ok THEN "ok" ELSE "err"]

\* No synchronous method has been called yet.
NoCall == [op |-> "none", ok |-> TRUE, value |-> 0]

\* A synchronous method op returned Ok(v) (v = 0 stands for Ok(())).
Returns(op, v) == [op |-> op, ok |-> TRUE, value |-> v]

\* The strings handed to S3Writer::new, by what the url crate makes of them:
\* whether Url::parse accepts the string, url.scheme() and url.host_str()
\* (an Option, here a sequence of at most one element).
Uris ==
    {[parsed |-> FALSE, scheme |-> "", host |-> <<>>]} \cup
    {[parsed |-> TRUE, scheme |-> s, host |-> h] :
        s \in {"s3", "https"}, h \in {<<>>, <<"bucket">>}}

\* S3Writer::new returned Err(io::Error) of the given kind; client tells
\* whether AmazonS3Builder::build was reached.
NewErr(kind, msg, client) == [kind |-> kind, msg |-> msg, client |-> client]

\* S3Writer::new returned Ok(Self { .. }).
NewOk == [kind |-> "Ok", msg |-> "", client |-> "built"]

\* Variant of new: looks for the bucket before it looks at the scheme.
new_host_first(u, build_ok) ==
    IF ~u.parsed
    THEN NewErr("InvalidInput", "Invalid S3 URI", "none")
    ELSE IF u.host = <<>>
    THEN NewErr("InvalidInput", "S3 URI missing bucket name", "none")
    ELSE IF u.scheme # "s3"
    THEN NewErr("InvalidInput", "Expected s3:// URI", "none")
    ELSE IF ~build_ok
    THEN NewErr("Other", "Failed to create S3 client", "build_failed")
    ELSE NewOk

\* S3Writer::new(uri): what it returns for the string u when
\* AmazonS3Builder::build succeeds (build_ok) or fails.
new(u, build_ok) ==
    IF ~u.parsed
    THEN NewErr("InvalidInput", "Invalid S3 URI", "none")
    ELSE IF u.scheme # "s3"
    THEN NewErr("InvalidInput", "Expected s3:// URI", "none")
    ELSE IF u.host = <<>>
    THEN NewErr("InvalidInput", "S3 URI missing bucket name", "none")
    ELSE IF ~build_ok
    THEN NewErr("Other", "Failed to create S3 client", "build_failed")
    ELSE NewOk

\* The state after S3Writer::new(uri): the writer of Ok(Self { .. }), or no
\* writer when new returned an error.
Init ==
    /\ uri \in Uris
    /\ \E build_ok \in BOOLEAN : created = new(uri, build_ok)
    /\ buffer = <<>>
    /\ parts = <<>>
    /\ total_bytes = 0
    /\ pc = IF created.kind = "Ok" THEN "accumulating" ELSE "no_writer"
    /\ next_part = 1
    /\ calls = <<>>
    /\ result = NoResult
    /\ written = <<>>
    /\ ret = NoCall
    /\ finishes = 0

\* ----------------------------------------------------------- accumulating
\* Variant of push: the new part goes to the front of the list.
push_front(ps, part_data) == <<part_data>> \o ps

\* self.parts.push(Bytes::from(<the buffer taken out of self.buffer>))
push(ps, part_data) == Append(ps, part_data)

\* Variant of ShouldSeal: seals at the provider minimum, not at the target
\* part size.
ShouldSeal_at_min(b) == len(b) >= S3_MIN_PART_SIZE

\* "When buffer reaches our target part size (32MB)": the test in write.
ShouldSeal(b) == len(b) >= PARQUET_BUFFER_SIZE

\* Variant of write: counts the bytes only of the slices that stay in the
\* buffer.
write_miscount(buf) ==
    /\ pc = "accumulating"
    /\ Len(written) < MaxWrites
    /\ LET extended == buffer \o buf
       IN  IF ShouldSeal(extended)
           THEN /\ parts' = push(parts, extended)
                /\ buffer' = <<>>
                /\ total_bytes' = total_bytes
           ELSE /\ parts' = parts
                /\ buffer' = extended
                /\ total_bytes' = total_bytes + len(buf)
    /\ written' = Append(written, buf)
    /\ ret' = Returns("write", len(buf))
    /\ UNCHANGED <<uri, created, pc, next_part, calls, result, finishes>>

\* Variant of write: uploads a part as soon as it is sealed.
write_uploading(buf) ==
    /\ pc = "accumulating"
    /\ Len(written) < MaxWrites
    /\ total_bytes' = total_bytes + len(buf)
    /\ LET extended == buffer \o buf
       IN  IF ShouldSeal(extended)
           THEN /\ parts' = push(parts, extended)
                /\ buffer' = <<>>
                /\ calls' = Append(calls, [op |-> "put_part", data |-> extended,
                                           status |-> "ok"])
           ELSE /\ parts' = parts
                /\ buffer' = extended
                /\ calls' = calls
    /\ written' = Append(written, buf)
    /\ ret' = Returns("write", len(buf))
    /\ UNCHANGED <<uri, created, pc, next_part, result, finishes>>

\* Variant of write: returns the length of the buffer after the append, not
\* the length of the slice.
write_returns_buffered(buf) ==
    /\ pc = "accumulating"
    /\ Len(written) < MaxWrites
    /\ total_bytes' = total_bytes + len(buf)
    /\ LET extended == buffer \o buf
       IN  IF ShouldSeal(extended)
           THEN /\ parts' = push(parts, extended)
                /\ buffer' = <<>>
           ELSE /\ parts' = parts
                /\ buffer' = extended
    /\ written' = Append(written, buf)
    /\ ret' = Returns("write", len(buffer \o buf))
    /\ UNCHANGED <<uri, created, pc, next_part, calls, result, finishes>>

\* Variant of write: the counter follows the buffer and starts again from
\* zero when a part is sealed.
write_reset_on_seal(buf) ==
    /\ pc = "accumulating"
    /\ Len(written) < MaxWrites
    /\ LET extended == buffer \o buf
       IN  IF ShouldSeal(extended)
           THEN /\ parts' = push(parts, extended)
                /\ buffer' = <<>>
                /\ total_bytes' = 0
           ELSE /\ parts' = parts
                /\ buffer' = extended
                /\ total_bytes' = total_bytes + len(buf)
    /\ written' = Append(written, buf)
    /\ ret' = Returns("write", len(buf))
    /\ UNCHANGED <<uri, created, pc, next_part, calls, result, finishes>>

\* The first k bytes of the byte string bs.
RECURSIVE TakeBytes(_, _)
TakeBytes(bs, k) ==
    IF bs = <<>> \/ k = 0 THEN <<>>
    ELSE IF Head(bs).n <= k
         THEN <<Head(bs)>> \o TakeBytes(Tail(bs), k - Head(bs).n)
         ELSE <<[byte |-> Head(bs).byte, n |-> k]>>

\* The byte string bs without its first k bytes.
RECURSIVE DropBytes(_, _)
DropBytes(bs, k) ==
    IF bs = <<>> \/ k = 0 THEN bs
    ELSE IF Head(bs).n <= k
         THEN DropBytes(Tail(bs), k - Head(bs).n)
         ELSE <<[byte |-> Head(bs).byte, n |-> Head(bs).n - k]>> \o Tail(bs)

\* Variant of write: cuts the buffer at the target part size, seals the
\* first PARQUET_BUFFER_SIZE bytes and keeps the rest in the buffer.
write_cutting(buf) ==
    /\ pc = "accumulating"
    /\ Len(written) < MaxWrites
    /\ total_bytes' = total_bytes + len(buf)
    /\ LET extended == buffer \o buf
       IN  IF ShouldSeal(extended)
           THEN /\ parts' = push(parts, TakeBytes(extended, PARQUET_BUFFER_SIZE))
                /\ buffer' = DropBytes(extended, PARQUET_BUFFER_SIZE)
           ELSE /\ parts' = parts
                /\ buffer' = extended
    /\ written' = Append(written, buf)
    /\ ret' = Returns("write", len(buf))
    /\ UNCHANGED <<uri, created, pc, next_part, calls, result, finishes>>

\* impl Write for S3Writer: write(&mut self, buf)
\* (total_bytes is a usize; it cannot wrap, because every byte counted is
\* held in memory in buffer or parts until finish.)
write(buf) ==
    /\ pc = "accumulating"
    /\ Len(written) < MaxWrites
    /\ total_bytes' = total_bytes + len(buf)
    /\ LET extended == buffer \o buf
       IN  IF ShouldSeal(extended)
           THEN /\ parts' = push(parts, extended)
                /\ buffer' = <<>>
           ELSE /\ parts' = parts
                /\ buffer' = extended
    /\ written' = Append(written, buf)
    /\ ret' = Returns("write", len(buf))
    /\ UNCHANGED <<uri, created, pc, next_part, calls, result, finishes>>

\* Variant of flush: seals whatever is in the buffer as a part.
flush_sealing ==
    /\ pc = "accumulating"
    /\ ret' = Returns("flush", 0)
    /\ parts' = IF len(buffer) # 0 THEN push(parts, buffer) ELSE parts
    /\ buffer' = <<>>
    /\ UNCHANGED <<uri, created, total_bytes, pc, next_part, calls, result,
                   written, finishes>>

\* impl Write for S3Writer: flush(&mut self)
flush ==
    /\ pc = "accumulating"
    /\ ret' = Returns("flush", 0)
    /\ UNCHANGED <<uri, created, buffer, parts, total_bytes, pc, next_part,
                   calls, result, written, finishes>>

\* Variant of total_bytes_get: reports the bytes currently buffered.
total_bytes_get_buffered ==
    /\ pc = "accumulating"
    /\ ret' = Returns("total_bytes", len(buffer))
    /\ UNCHANGED <<uri, created, buffer, parts, total_bytes, pc, next_part,
                   calls, result, written, finishes>>

\* S3Writer::total_bytes(&self).  It borrows the writer, so it can be called
\* only while the writer has not been moved into finish(mut self).
total_bytes_get ==
    /\ pc = "accumulating"
    /\ ret' = Returns("total_bytes", total_bytes)
    /\ UNCHANGED <<uri, created, buffer, parts, total_bytes, pc, next_part,
                   calls, result, written, finishes>>

\* ---------------------------------------------------------------- finish
\* Variant of FinalParts: the buffer is sealed as the final part even when
\* it is empty.
FinalParts_always(ps, b) == push(ps, b)

\* The parts finish() holds after "Add any remaining buffer data as the
\* final part".
FinalParts(ps, b) == IF len(b) # 0 THEN push(ps, b) ELSE ps

\* Variant of UseSimplePut: a lone part of exactly the minimum size still
\* goes through the simple put.
UseSimplePut_le(ps) == Len(ps) = 1 /\ len(ps[1]) <= S3_MIN_PART_SIZE

\* "Handle small files with simple PUT": the condition of the branch.
UseSimplePut(ps) == Len(ps) = 1 /\ len(ps[1]) < S3_MIN_PART_SIZE

\* finish(mut self) up to its first await: seal the rest of the buffer,
\* choose the upload path and issue its first remote call.
finish ==
    /\ pc = "accumulating"
    /\ finishes' = finishes + 1
    /\ parts' = FinalParts(parts, buffer)
    /\ buffer' = <<>>
    /\ IF UseSimplePut(parts')
       THEN /\ calls' = Append(calls, Call("put", parts'[1]))
            /\ pc' = "put"
       ELSE /\ calls' = Append(calls, Call("put_multipart", <<>>))
            /\ pc' = "put_multipart"
    /\ UNCHANGED <<uri, created, total_bytes, next_part, result, written,
                   ret>>

\* Variant of NextMultipartCall: the parts are uploaded last to first.
NextMultipartCall_reversed(cs, ps, i) ==
    IF i <= Len(ps)
    THEN Append(cs, Call("put_part", ps[Len(ps) + 1 - i]))
    ELSE Append(cs, Call("complete", <<>>))

\* What the upload loop and the completion do once the previous call of the
\* multipart session has returned Ok: upload the next part, or complete.
NextMultipartCall(cs, ps, i) ==
    IF i <= Len(ps)
    THEN Append(cs, Call("put_part", ps[i]))
    ELSE Append(cs, Call("complete", <<>>))

NextMultipartPc(ps, i) == IF i <= Len(ps) THEN "put_part" ELSE "complete"

\* Variant of put_returns: when the simple put fails, the upload is tried
\* again as a multipart upload.
put_returns_falling_back(ok) ==
    /\ pc = "put"
    /\ IF ok
       THEN /\ calls' = Returned(calls, ok)
            /\ pc' = "returned"
            /\ result' = Ok(total_bytes)
       ELSE /\ calls' = Append(Returned(calls, ok), Call("put_multipart", <<>>))
            /\ pc' = "put_multipart"
            /\ result' = result
    /\ UNCHANGED <<uri, created, buffer, parts, total_bytes, next_part,
                   written, ret, finishes>>

\* self.client.put(..).await returns
put_returns(ok) ==
    /\ pc = "put"
    /\ calls' = Returned(calls, ok)
    /\ pc' = "returned"
    /\ result' = IF ok THEN Ok(total_bytes) ELSE Err("Failed to upload to S3", 0)
    /\ UNCHANGED <<uri, created, buffer, parts, total_bytes, next_part,
                   written, ret, finishes>>

\* self.client.put_multipart(..).await returns
put_multipart_returns(ok) ==
    /\ pc = "put_multipart"
    /\ IF ok
       THEN /\ calls' = NextMultipartCall(Returned(calls, ok), parts, next_part)
            /\ pc' = NextMultipartPc(parts, next_part)
            /\ result' = result
       ELSE /\ calls' = Returned(calls, ok)
            /\ pc' = "returned"
            /\ result' = Err("Failed to start multipart upload", 0)
    /\ UNCHANGED <<uri, created, buffer, parts, total_bytes, next_part,
                   written, ret, finishes>>

\* Variant of put_part_returns: a failed part upload is skipped over and the
\* loop goes on.
put_part_returns_ignoring(ok) ==
    /\ pc = "put_part"
    /\ next_part' = next_part + 1
    /\ calls' = NextMultipartCall(Returned(calls, ok), parts, next_part')
    /\ pc' = NextMultipartPc(parts, next_part')
    /\ result' = result
    /\ UNCHANGED <<uri, created, buffer, parts, total_bytes, written, ret,
                   finishes>>

\* upload.put_part(..).await returns, for part i + 1 = next_part
put_part_returns(ok) ==
    /\ pc = "put_part"
    /\ IF ok
       THEN /\ next_part' = next_part + 1
            /\ calls' = NextMultipartCall(Returned(calls, ok), parts, next_part')
            /\ pc' = NextMultipartPc(parts, next_part')
            /\ result' = result
       ELSE /\ next_part' = next_part
            /\ calls' = Returned(calls, ok)
            /\ pc' = "returned"
            /\ result' = Err("Failed to upload part", next_part)
    /\ UNCHANGED <<uri, created, buffer, parts, total_bytes, written, ret,
                   finishes>>

\* Variant of complete_returns: finish borrows the writer instead of
\* consuming it, so the writer is usable again afterwards.
complete_returns_borrowing(ok) ==
    /\ pc = "complete"
    /\ calls' = Returned(calls, ok)
    /\ pc' = "accumulating"
    /\ result' = IF ok THEN Ok(total_bytes)
                 ELSE Err("Failed to complete multipart upload", 0)
    /\ UNCHANGED <<uri, created, buffer, parts, total_bytes, next_part,
                   written, ret, finishes>>

\* Variant of complete_returns: Ok carries the length of the last part, not
\* the running total.
complete_returns_last_part(ok) ==
    /\ pc = "complete"
    /\ calls' = Returned(calls, ok)
    /\ pc' = "returned"
    /\ result' = IF ok
                 THEN Ok(IF parts = <<>> THEN 0 ELSE len(parts[Len(parts)]))
                 ELSE Err("Failed to complete multipart upload", 0)
    /\ UNCHANGED <<uri, created, buffer, parts, total_bytes, next_part,
                   written, ret, finishes>>

\* upload.complete().await returns
complete_returns(ok) ==
    /\ pc = "complete"
    /\ calls' = Returned(calls, ok)
    /\ pc' = "returned"
    /\ result' = IF ok THEN Ok(total_bytes)
                 ELSE Err("Failed to complete multipart upload", 0)
    /\ UNCHANGED <<uri, created, buffer, parts, total_bytes, next_part,
                   written, ret, finishes>>

Next ==
    \/ \E buf \in Slices : write(buf)
    \/ flush
    \/ total_bytes_get
    \/ finish
    \/ \E ok \in BOOLEAN : put_returns(ok)
    \/ \E ok \in BOOLEAN : put_multipart_returns(ok)
    \/ \E ok \in BOOLEAN : put_part_returns(ok)
    \/ \E ok \in BOOLEAN : complete_returns(ok)

Spec == Init /\ [][Next]_vars

TypeOK ==
    /\ total_bytes \in Nat
    /\ pc \in {"no_writer", "accumulating", "put", "put_multipart",
               "put_part", "complete", "returned"}
    /\ Len(written) <= MaxWrites

\* ---------------------------------------------------------------- claims
\* finish() has sealed the remaining buffer (it is at or past its first
\* remote call).
Finishing ==
    pc \in {"put", "put_multipart", "put_part", "complete", "returned"}

\* C1: the parts finish() holds after sealing the remaining buffer,
\* concatenated in list order, are byte for byte the concatenation of all
\* slices passed to write in call order.
C1_PartsReproduceWrites ==
    Finishing => Canon(Concat(parts)) = Canon(Concat(written))

\* C1 case: three writes of different bytes ended up in two parts.
C1_Witness ==
    /\ Finishing
    /\ Len(parts) = 2
    /\ Len(written) = 3
    /\ \A k \in 1..3 : len(written[k]) > 0
    /\ Len(Canon(Concat(written))) = 3

\* C2: total_bytes is the sum of the lengths of all slices passed to write
\* so far, which is the sum of the lengths of the sealed parts plus the
\* length of the in-progress buffer.
C2_TotalBytesIsSum ==
    /\ total_bytes = SumLen(written)
    /\ total_bytes = SumLen(parts) + len(buffer)

\* C2 case: still accumulating, a part was sealed by write and more bytes
\* sit in the buffer.
C2_Witness ==
    /\ pc = "accumulating"
    /\ Len(parts) >= 1
    /\ len(buffer) > 0
    /\ Len(written) = 3

\* The first remote call finish() issued.
FirstOp == calls[1].op

\* C3: at finish(), one part shorter than S3_MIN_PART_SIZE goes the
\* single-put way; two or more parts, or a lone part of at least
\* S3_MIN_PART_SIZE, go the multipart way.
C3_PathChoice ==
    Finishing =>
        /\ (Len(parts) = 1 /\ len(parts[1]) < S3_MIN_PART_SIZE)
               => FirstOp = "put"
        /\ (Len(parts) >= 2
            \/ (Len(parts) = 1 /\ len(parts[1]) >= S3_MIN_PART_SIZE))
               => FirstOp = "put_multipart"

\* C3 case: a lone part of exactly the minimum size took the multipart way.
C3_Witness ==
    /\ Finishing
    /\ Len(parts) = 1
    /\ len(parts[1]) = S3_MIN_PART_SIZE
    /\ FirstOp = "put_multipart"

\* The remote calls of a complete multipart upload of the parts ps.
MultipartScript(ps) ==
    <<[op |-> "put_multipart", data |-> <<>>]>>
    \o [k \in 1..Len(ps) |-> [op |-> "put_part", data |-> ps[k]]]
    \o <<[op |-> "complete", data |-> <<>>]>>

\* C4: on the multipart path the remote calls are one session start, then
\* one put_part per part in the order the parts were sealed, each issued
\* after the previous call returned successfully, then one completion after
\* every part was uploaded; finish() returns Ok only after the whole script.
C4_MultipartOrder ==
    (Finishing /\ FirstOp = "put_multipart") =>
        LET script == MultipartScript(parts)
        IN  /\ Len(calls) <= Len(script)
            /\ \A k \in 1..Len(calls) :
                  /\ calls[k].op = script[k].op
                  /\ calls[k].data = script[k].data
                  /\ k < Len(calls) => calls[k].status = "ok"
            /\ result.kind = "Ok" => Len(calls) = Len(script)

\* C4 case: a multipart upload of three parts of different content went
\* through to the end.
C4_Witness ==
    /\ pc = "returned"
    /\ result.kind = "Ok"
    /\ Len(parts) = 3
    /\ parts[1] # parts[2]
    /\ parts[2] # parts[3]
    /\ Len(calls) = 5

\* Number of calls of the log cs whose operation is op.
RECURSIVE CountOp(_, _)
CountOp(cs, op) ==
    IF cs = <<>> THEN 0
    ELSE (IF Head(cs).op = op THEN 1 ELSE 0) + CountOp(Tail(cs), op)

\* C5: finish() on a writer that received no byte either issues a
\* zero-length single put or fails with an empty-object error without any
\* remote call; it does not open a multipart session with zero parts.
C5_EmptyFinishNoMultipart ==
    (Finishing /\ SumLen(written) = 0) =>
        /\ CountOp(calls, "put_multipart") = 0
        /\ \/ calls = <<>> /\ pc = "returned" /\ result.kind # "Ok"
           \/ Len(calls) = 1 /\ FirstOp = "put" /\ len(calls[1].data) = 0

\* C6 as stated: whenever the total length written is below the split
\* threshold, finish() holds exactly one part, whose content is the
\* concatenation of all written slices in order.
C6_OnePartBelowThreshold_AsStated ==
    (Finishing /\ SumLen(written) < PARQUET_BUFFER_SIZE) =>
        /\ Len(parts) = 1
        /\ Canon(parts[1]) = Canon(Concat(written))

\* C6 amended: whenever the total length written is positive and below the
\* split threshold, finish() holds exactly one part, whose content is the
\* concatenation of all written slices in order; when nothing was written
\* it holds no part.
C6_OnePartBelowThreshold ==
    Finishing =>
        /\ (0 < SumLen(written) /\ SumLen(written) < PARQUET_BUFFER_SIZE) =>
              /\ Len(parts) = 1
              /\ Canon(parts[1]) = Canon(Concat(written))
        /\ SumLen(written) = 0 => parts = <<>>

\* C6 case: three non-empty writes of alternating bytes that together stay
\* below the threshold.
C6_Witness ==
    /\ Finishing
    /\ Len(written) = 3
    /\ \A k \in 1..3 : len(written[k]) > 0
    /\ Len(Canon(Concat(written))) = 3
    /\ SumLen(written) > 2 * S3_MIN_PART_SIZE
    /\ SumLen(written) < PARQUET_BUFFER_SIZE
    /\ Len(parts) = 1

\* C7: in every state, while accumulating and in finish(), every sealed
\* part except possibly the last one is at least PARQUET_BUFFER_SIZE long,
\* hence at least S3_MIN_PART_SIZE long when the threshold is not below the
\* provider minimum.
C7_NonFinalPartsAtLeastThreshold ==
    \A k \in 1..(Len(parts) - 1) :
        /\ len(parts[k]) >= PARQUET_BUFFER_SIZE
        /\ PARQUET_BUFFER_SIZE >= S3_MIN_PART_SIZE
              => len(parts[k]) >= S3_MIN_PART_SIZE

\* C7 case: finish() holds a part sealed by write, longer than the
\* threshold, followed by a short last part.
C7_Witness ==
    /\ Finishing
    /\ Len(parts) = 2
    /\ len(parts[1]) > PARQUET_BUFFER_SIZE
    /\ len(parts[2]) < S3_MIN_PART_SIZE

\* C8: a remote call that failed is the last call ever issued (nothing is
\* uploaded after it, completion is not called, it is not retried, no abort
\* is sent), finish() has returned by then with an error and no byte count,
\* and finish() returns Ok only if every remote call succeeded.
C8_FailureStopsFinish ==
    /\ \A k \in 1..Len(calls) :
          /\ calls[k].op \in {"put", "put_multipart", "put_part", "complete"}
          /\ calls[k].status = "err" =>
                /\ k = Len(calls)
                /\ pc = "returned"
                /\ result.kind \notin {"Ok", "none"}
                /\ result.value = 0
    /\ result.kind = "Ok" =>
          /\ calls # <<>>
          /\ \A k \in 1..Len(calls) : calls[k].status = "ok"
    /\ pc = "returned" <=> result.kind # "none"

\* C8 case: the upload of part 2 of 3 failed.
C8_Witness ==
    /\ pc = "returned"
    /\ Len(parts) = 3
    /\ result.kind = "Failed to upload part"
    /\ result.part = 2
    /\ Len(calls) = 3
    /\ calls[3].status = "err"

\* C9: write and flush issue no remote call: as long as the writer is
\* accumulating the call log is empty, so every remote call is issued by
\* finish(), after the last write.
C9_NoRemoteCallBeforeFinish ==
    /\ pc = "accumulating" => calls = <<>>
    /\ calls # <<>> => finishes = 1

\* C9 case: write has sealed two parts and flush was called, still nothing
\* was sent.
C9_Witness ==
    /\ pc = "accumulating"
    /\ Len(parts) = 2
    /\ ret.op = "flush"
    /\ calls = <<>>

\* C10: the writer is single-use: finish() is entered at most once, once it
\* has started no write, flush or finish occurs, and the parts are handed
\* to the remote store at most once.
C10_SingleUse ==
    [][/\ finishes' <= 1
       /\ Finishing =>
             /\ written' = written
             /\ ret' = ret
             /\ finishes' = finishes
             /\ parts' = parts
             /\ Finishing'
       /\ CountOp(calls', "put") + CountOp(calls', "put_multipart") <= 1
       /\ CountOp(calls', "put_part") <= Len(parts')
       /\ CountOp(calls', "complete") <= 1]_vars

\* C10 case: finish() has returned after a multipart upload.
C10_Witness ==
    /\ pc = "returned"
    /\ finishes = 1
    /\ CountOp(calls, "put_part") = 2
    /\ CountOp(calls, "complete") = 1

\* Number of bytes handed to the remote store: the bodies of the put and
\* put_part calls of the log cs.
RECURSIVE UploadedBytes(_)
UploadedBytes(cs) ==
    IF cs = <<>> THEN 0
    ELSE (IF Head(cs).op \in {"put", "put_part"} THEN len(Head(cs).data) ELSE 0)
         + UploadedBytes(Tail(cs))

\* C11: when finish() returns Ok, the value is the number of bytes uploaded
\* (the body of the single put, or of all put_part calls), which is the sum
\* of the lengths of all slices written.
C11_OkValueIsBytesUploaded ==
    result.kind = "Ok" =>
        /\ result.value = UploadedBytes(calls)
        /\ result.value = SumLen(written)

\* C11 case: a multipart upload of two parts of different lengths returned
\* Ok.
C11_Witness ==
    /\ result.kind = "Ok"
    /\ Len(parts) = 2
    /\ len(parts[1]) # len(parts[2])
    /\ CountOp(calls, "put_part") = 2
    /\ result.value = len(parts[1]) + len(parts[2])

\* The sealed parts and the buffer that the writes ws alone leave behind
\* (no flush in between).
RECURSIVE WritesOnly(_)
WritesOnly(ws) ==
    IF ws = <<>> THEN [parts |-> <<>>, buffer |-> <<>>]
    ELSE LET before == WritesOnly(SubSeq(ws, 1, Len(ws) - 1))
             extended == before.buffer \o ws[Len(ws)]
         IN  IF len(extended) >= PARQUET_BUFFER_SIZE
             THEN [parts |-> Append(before.parts, extended), buffer |-> <<>>]
             ELSE [parts |-> before.parts, buffer |-> extended]

\* C12: flush is a no-op: it returns Ok(()) and leaves the buffer, the
\* parts and the byte counter as they are (it never seals a partial
\* buffer), so with flush calls anywhere between the writes the parts and
\* the buffer are those of the writes alone.
C12_FlushIsNoOp ==
    [][/\ (pc = "accumulating" /\ pc' = "accumulating"
           /\ ret'.op = "flush") =>
             /\ ret' = [op |-> "flush", ok |-> TRUE, value |-> 0]
             /\ written' = written
             /\ buffer' = buffer
             /\ parts' = parts
             /\ total_bytes' = total_bytes
             /\ calls' = calls
             /\ pc' = pc
             /\ uri' = uri
             /\ created' = created
       /\ pc' = "accumulating" =>
             /\ parts' = WritesOnly(written').parts
             /\ buffer' = WritesOnly(written').buffer]_vars

\* C12 case: flush has just returned on a writer that holds a sealed part
\* and a partly filled buffer.
C12_Witness ==
    /\ pc = "accumulating"
    /\ ret.op = "flush"
    /\ Len(parts) = 1
    /\ len(buffer) > 0
    /\ len(buffer) < PARQUET_BUFFER_SIZE

\* C13 as stated: once a writer exists, the total-bytes accessor can be
\* called in every state, before and after finalization.
C13_AccessorAlwaysCallable_AsStated ==
    pc # "no_writer" => ENABLED total_bytes_get

\* C13 amended: the total-bytes accessor can be called exactly as long as
\* finish() has not been entered, and it reports the total of the bytes
\* written so far; afterwards the writer is consumed and the total is
\* what finish() returns in Ok.
C13_AccessorBeforeFinish ==
    /\ (ENABLED total_bytes_get) <=> pc = "accumulating"
    /\ (ENABLED total_bytes_get) <=> (created.kind = "Ok" /\ finishes = 0)
    /\ ret.op = "total_bytes" =>
          /\ ret.ok
          /\ ret.value = SumLen(written)
    /\ result.kind = "Ok" => result.value = SumLen(written)

\* C13 case: the accessor was the last call before finish(); a part was
\* sealed by write and more bytes were in the buffer at that time.
C13_Witness ==
    /\ Finishing
    /\ ret.op = "total_bytes"
    /\ Len(parts) = 2
    /\ len(parts[2]) < PARQUET_BUFFER_SIZE
    /\ ret.value = len(parts[1]) + len(parts[2])

\* The slice passed to the last write.
LastWritten == written[Len(written)]

\* C14: write never fails and returns exactly the length of the slice it
\* was given, for every slice (the empty one and those longer than the
\* threshold included) and in every state of the accumulator.
C14_WriteReturnsSliceLength ==
    /\ ret.op = "write" =>
          /\ written # <<>>
          /\ ret.ok
          /\ ret.value = len(LastWritten)
    /\ (pc = "accumulating" /\ Len(written) < MaxWrites) =>
          \A buf \in Slices : ENABLED write(buf)

\* C14 case: a slice of twice the threshold was written onto a buffer that
\* already held bytes, after a part had been sealed.
C14_Witness ==
    /\ ret.op = "write"
    /\ ret.value = 2 * PARQUET_BUFFER_SIZE
    /\ Len(parts) = 2
    /\ len(parts[2]) > 2 * PARQUET_BUFFER_SIZE

\* C15: the byte counter never decreases; only write changes it, by
\* exactly the length of the slice written; sealing a part (in write or in
\* finish) and flush leave it unchanged.
C15_CounterMonotone ==
    [][/\ total_bytes' >= total_bytes
       /\ total_bytes' # total_bytes => written' # written
       /\ written' # written =>
             total_bytes' = total_bytes + len(written'[Len(written')])
       /\ (written' = written /\ parts' # parts) => total_bytes' = total_bytes
       /\ (pc' = "accumulating" /\ ret'.op = "flush") =>
             total_bytes' = total_bytes]_vars

\* C15 case: finish() sealed the rest of the buffer after write had sealed
\* a part; the counter is the sum of both.
C15_Witness ==
    /\ pc = "put_multipart"
    /\ Len(parts) = 2
    /\ Len(written) = 3
    /\ ret.op = "flush"
    /\ total_bytes = len(parts[1]) + len(parts[2])
    /\ len(parts[2]) < PARQUET_BUFFER_SIZE

\* C16: S3Writer::new fails with InvalidInput, creating no writer and no
\* client, when the string does not parse, when the scheme is not s3, or
\* when there is no host; the checks come in that order; a writer exists
\* only when all three pass, and it starts with an empty buffer, no parts
\* and a counter of 0.
C16_ConstructionChecks ==
    /\ ~uri.parsed =>
          created = NewErr("InvalidInput", "Invalid S3 URI", "none")
    /\ (uri.parsed /\ uri.scheme # "s3") =>
          created = NewErr("InvalidInput", "Expected s3:// URI", "none")
    /\ (uri.parsed /\ uri.scheme = "s3" /\ uri.host = <<>>) =>
          created = NewErr("InvalidInput", "S3 URI missing bucket name", "none")
    /\ created.kind # "Ok" <=> pc = "no_writer"
    /\ pc # "no_writer" =>
          /\ uri.parsed
          /\ uri.scheme = "s3"
          /\ uri.host # <<>>
          /\ created.client = "built"
    /\ (written = <<>> /\ finishes = 0) =>
          /\ buffer = <<>>
          /\ parts = <<>>
          /\ total_bytes = 0
    /\ pc = "no_writer" =>
          /\ written = <<>>
          /\ calls = <<>>
          /\ ret = NoCall
          /\ finishes = 0

\* C16 case: a string that parses but has both a wrong scheme and no host
\* is rejected for its scheme.
C16_Witness ==
    /\ pc = "no_writer"
    /\ uri.parsed
    /\ uri.scheme # "s3"
    /\ uri.host = <<>>
    /\ created.kind = "InvalidInput"
    /\ created.msg = "Expected s3:// URI"
    /\ created.client = "none"

\* C17: a write seals at most one part, and what it seals is the whole
\* buffer with the slice appended, not a cut at the threshold: the part
\* sealed by the write of slice s has a length L with
\* PARQUET_BUFFER_SIZE <= L < PARQUET_BUFFER_SIZE + len(s), so parts may be
\* longer than the threshold.
C17_WriteSealsWholeBuffer ==
    [][written' # written =>
          LET s == written'[Len(written')]
          IN  /\ Len(parts') \in {Len(parts), Len(parts) + 1}
              /\ SubSeq(parts', 1, Len(parts)) = parts
              /\ Len(parts') = Len(parts) + 1 =>
                    LET sealed == parts'[Len(parts')]
                    IN  /\ Canon(sealed) = Canon(buffer \o s)
                        /\ buffer' = <<>>
                        /\ len(sealed) >= PARQUET_BUFFER_SIZE
                        /\ len(sealed) < PARQUET_BUFFER_SIZE + len(s)
              /\ Len(parts') = Len(parts) =>
                    /\ Canon(buffer') = Canon(buffer \o s)
                    /\ len(buffer') < PARQUET_BUFFER_SIZE]_vars

\* C17 case: one slice of twice the threshold became one part of that size,
\* and two slices just below the threshold became one part of almost twice
\* the threshold.
C17_Witness ==
    /\ pc = "accumulating"
    /\ Len(written) = 3
    /\ Len(parts) = 2
    /\ len(written[1]) = 2 * PARQUET_BUFFER_SIZE
    /\ len(parts[1]) = 2 * PARQUET_BUFFER_SIZE
    /\ len(parts[2]) = 2 * PARQUET_BUFFER_SIZE - 2
    /\ buffer = <<>>

\* C18: the buffer is always shorter than PARQUET_BUFFER_SIZE once a write
\* has returned, and no sealed part is empty, neither one sealed by write
\* nor the last one, which finish() seals only from a non-empty buffer.
C18_BufferBelowThresholdNoEmptyPart ==
    /\ len(buffer) < PARQUET_BUFFER_SIZE
    /\ \A k \in 1..Len(parts) : len(parts[k]) > 0

\* C18 case: after an empty write among the writes, finish() sealed a
\* buffer one byte short of the threshold behind a part sealed by write.
C18_Witness ==
    /\ Finishing
    /\ \E k \in 1..Len(written) : len(written[k]) = 0
    /\ Len(parts) = 2
    /\ len(parts[2]) = PARQUET_BUFFER_SIZE - 1
    /\ buffer = <<>>

\* C19: one finish() uses one upload strategy: either exactly one simple
\* put and no multipart call, or exactly one session start and no simple
\* put; the choice is made once, after the final seal, and a failure does
\* not change it.
C19_OneStrategy ==
    Finishing =>
        \/ /\ FirstOp = "put"
           /\ Len(calls) = 1
           /\ Len(parts) = 1
        \/ /\ FirstOp = "put_multipart"
           /\ CountOp(calls, "put_multipart") = 1
           /\ CountOp(calls, "put") = 0

\* C19 case: the simple put of a lone small part failed and finish()
\* returned without any multipart call.
C19_Witness ==
    /\ pc = "returned"
    /\ result.kind = "Failed to upload to S3"
    /\ Len(calls) = 1
    /\ calls[1].op = "put"
    /\ calls[1].status = "err"
    /\ len(calls[1].data) = 100
====
